---- MODULE Spec2Model ----
(***************************************************************************)
(* genie-whisper: the real-time segmentation and transcription-dispatch    *)
(* pipeline of src/python/server.py (GenieWhisperServer and its            *)
(* AudioProcessor), as a state machine.                                    *)
(*                                                                         *)
(* Time is a discrete clock `now`; every time.time() of the code reads it. *)
(* A frame is a record [id, kind]: id is its position in capture order,    *)
(* kind is what the external detectors would answer for it.                *)
(***************************************************************************)
EXTENDS Integers, Sequences, FiniteSets, TLC

\* ---------------------------------------------------------------- bounds
MaxTime == 4
MaxFrames == 3
MaxLoops == 2
MaxCallbacks == 1
MaxConcFrames == 1
MaxConcTime == 3
MinUtteranceFrames == 2

\* ---------------------------------------------------------- configuration
\* One tick of `now` is one second. silence_threshold_ms / 1000.0 with the
\* default of 1000 ms; wake_word_timeout_ms / 1000.0 for a server built with
\* args.wake_word_timeout_ms = 2000 (the default is 5000).
silence_threshold == 1
wake_word_timeout == 2

Threads == 1..MaxLoops
HardTimeout == MaxTime - 1

\* What the detectors answer for a frame:
\*   "silence": VAD says no speech, no wake phrase
\*   "speech" : VAD says speech, no wake phrase
\*   "wake"   : the wake-word detector matches it (VAD would say speech)
\*   "error"  : the VAD model raises inside the detector while classifying it
Kinds == {"silence", "speech", "wake", "error"}

Texts == {"hello", " ", ""}

VARIABLES
    now,                \* wall clock, time.time()
    activation_mode,    \* self.activation_mode
    use_vad,            \* self.use_vad
    wake_word_detector, \* self.wake_word_detector is not None
    reset_wake_word_after_silence,
    wake_word_active,   \* the wake-word listener thread runs
    main,               \* command thread: "running", "crashed", "exited"
    is_listening,
    is_recording,
    audio_queue,        \* AudioProcessor.audio_queue
    frames_produced,    \* frames delivered so far by the capture callback
    callbacks,          \* wake-word callbacks made so far
    pc,                 \* per transcription-loop thread: position
    cont,               \* per thread: call site of _process_accumulated_audio
    audio_to_process,   \* per thread: local of _process_accumulated_audio
    speech_active,
    accumulated_audio,
    last_speech_time,
    wake_word_detected,
    speech_started_time,
    transcribed,        \* history: every call of transcriber.transcribe
    messages,           \* history: every _send_message
    fed,                \* history: frames taken from the queue by a loop
    last_wake_frame,    \* history: id of the frame that last armed the gate
    speech_gap,         \* history: two speech frames were taken further apart
                        \*   than silence_threshold
    speech_onset,       \* history: when speech_active last became true
    cache,              \* TranscriptionCache.cache: <<[key, text]>>, oldest first
    audio_fingerprint_cache, \* its keys, in insertion order
    max_size,           \* TranscriptionCache.max_size
    model_loaded,       \* WhisperTranscriber.model is not None
    tr,                 \* the call of WhisperTranscriber.transcribe under way
    stats_pc,           \* command thread: position in get_performance_stats
    api,                \* history: the last completed operation on the cache
    phrase_cache,       \* TranscriptionCache.phrase_cache: the texts it holds
    phrase_frequency,   \* TranscriptionCache.phrase_frequency: <<[key, n]>> in
                        \*   insertion order
    persistent_file,    \* what the constructor found at persistent_path
    access_order,       \* history: keys of the exact cache, the least recently
                        \*   accessed first
    total_lookups,      \* TranscriptionCache statistics, lines 449-455
    cache_hits,
    phrase_hits,
    similarity_hits,
    audio_hits,
    hit_ratio,          \* a fraction [num, den]
    buffer_index,       \* WhisperWakeWordDetector.buffer_index, in chunks
    recent_audio,       \* _listening_loop: chunks kept for the sliding windows
    consecutive_detections, \* _listening_loop: its counter, in halves
    rounds,             \* history: the results of the last two detection rounds
    called,             \* history: the last chunk's round invoked the callback
    filter_pc,          \* AudioProcessor.filter_audio: "start", "segments", "merged"
    silero_segments,    \* filter_audio: what the two detectors have reported
    webrtc_segments,
    merged_segments     \* filter_audio: the result of the merge

config == <<activation_mode, use_vad, wake_word_detector,
            reset_wake_word_after_silence>>
segstate == <<speech_active, accumulated_audio, last_speech_time,
              wake_word_detected, speech_started_time>>
history == <<transcribed, messages, fed, last_wake_frame, speech_gap, speech_onset>>
threads == <<pc, cont, audio_to_process>>
\* The Whisper wake-word listener (wake_word.py), which no action of the
\* pipeline or of the cache touches.
listener == <<buffer_index, recent_audio, consecutive_detections, rounds, called>>
\* The merge of the detectors' segments in filter_audio, likewise.
merging == <<filter_pc, silero_segments, webrtc_segments, merged_segments>>
pipeline == <<now, config, wake_word_active, main, is_listening, is_recording,
              audio_queue, frames_produced, callbacks, threads, segstate, history,
              listener, merging>>
counters == <<total_lookups, cache_hits, phrase_hits, similarity_hits, audio_hits,
              hit_ratio>>
cachevars == <<cache, audio_fingerprint_cache, max_size, model_loaded, tr, stats_pc, api,
               phrase_cache, phrase_frequency, persistent_file, access_order, counters,
               listener, merging>>
vars == <<pipeline, cachevars>>

Msg(t, d) == [type |-> t, data |-> d]
IdleNote == Msg("status", "listening_for_wake_word")

WakeMode == activation_mode = "wake_word"

\* ------------------------------------------------------------------- Init
\* GenieWhisperServer.__init__ and AudioProcessor.__init__
PipelineInit ==
    /\ now = 0
    /\ activation_mode \in {"manual", "wake_word"}
    /\ use_vad \in BOOLEAN
    /\ wake_word_detector \in BOOLEAN
    /\ activation_mode = "manual" => ~wake_word_detector
    /\ reset_wake_word_after_silence \in BOOLEAN
    /\ activation_mode = "manual" => reset_wake_word_after_silence  \* only read in wake-word mode
    /\ wake_word_active = (WakeMode /\ wake_word_detector)
    /\ main = "running"
    /\ is_listening = FALSE
    /\ is_recording = FALSE
    /\ audio_queue = <<>>
    /\ frames_produced = 0
    /\ callbacks = 0
    /\ pc = [t \in Threads |-> "none"]
    /\ cont = [t \in Threads |-> "none"]
    /\ audio_to_process = [t \in Threads |-> <<>>]
    /\ speech_active = FALSE
    /\ accumulated_audio = <<>>
    /\ last_speech_time = 0
    /\ wake_word_detected = FALSE
    /\ speech_started_time = 0
    /\ transcribed = <<>>
    /\ messages = <<>>
    /\ fed = <<>>
    /\ last_wake_frame = 0
    /\ speech_gap = FALSE
    /\ speech_onset = 0
    /\ buffer_index = 0
    /\ recent_audio = 0
    /\ consecutive_detections = 0
    /\ rounds = <<"none", "none">>
    /\ called = FALSE
    /\ filter_pc = "start"
    /\ silero_segments = <<>>
    /\ webrtc_segments = <<>>
    /\ merged_segments = <<>>

\* A text that is no text: None
NoText == "<none>"

\* No call of transcribe under way: a call that has returned leaves nothing.
NoCall == [pc |-> "idle", audio |-> 0, found |-> NoText, text |-> NoText,
           invoked |-> FALSE]

\* No operation on the cache yet. evicted: the number of entries the
\* operation took out of the exact cache.
NoApi == [op |-> "none", audio |-> 0, text |-> NoText, evicted |-> 0]

\* The statistics of a cache that has looked nothing up, lines 449-455.
Ratio(n, d) == [num |-> n, den |-> d]
NoLookups ==
    /\ total_lookups = 0
    /\ cache_hits = 0
    /\ phrase_hits = 0
    /\ similarity_hits = 0
    /\ audio_hits = 0
    /\ hit_ratio = Ratio(0, 1)

\* The pipeline with the transcriber seen from outside: its cache is not
\* looked into, a transcription is any text (TranscribeReturn).
Init ==
    /\ PipelineInit
    /\ cache = <<>>
    /\ audio_fingerprint_cache = <<>>
    /\ max_size = 0
    /\ model_loaded = TRUE
    /\ tr = NoCall
    /\ stats_pc = "idle"
    /\ api = NoApi
    /\ phrase_cache = {}
    /\ phrase_frequency = <<>>
    /\ persistent_file = "absent"
    /\ access_order = <<>>
    /\ NoLookups

Alive == main # "exited"

\* ------------------------------------------------------------ environment
Tick ==
    /\ UNCHANGED cachevars
    /\ Alive
    /\ now < MaxTime
    /\ now' = now + 1
    /\ UNCHANGED <<config, wake_word_active, main, is_listening, is_recording,
                   audio_queue, frames_produced, callbacks, threads, segstate, history>>

\* The answers that matter under the configuration: a detector that is not
\* consulted has no answer.
FrameKinds ==
    {k \in Kinds : /\ k = "wake" => wake_word_detector
                   /\ k \in {"silence", "error"} => use_vad}

\* AudioProcessor._audio_callback: the capture stream delivers one frame.
AudioCallback(kind) ==
    /\ UNCHANGED cachevars
    /\ Alive
    /\ is_recording
    /\ frames_produced < MaxFrames
    /\ frames_produced' = frames_produced + 1
    /\ audio_queue' = Append(audio_queue, [id |-> frames_produced + 1, kind |-> kind])
    /\ UNCHANGED <<now, config, wake_word_active, main, is_listening, is_recording,
                   callbacks, threads, segstate, history>>

\* record_audio: the input stream fails, the recording thread gives up.
RecordingFails ==
    /\ UNCHANGED cachevars
    /\ Alive
    /\ is_recording
    /\ is_recording' = FALSE
    /\ UNCHANGED <<now, config, wake_word_active, main, is_listening,
                   audio_queue, frames_produced, callbacks, threads, segstate, history>>

\* ---------------------------------------------------------------- commands
FreeThreads == {t \in Threads : pc[t] = "none"}
NewThread == CHOOSE t \in FreeThreads : \A u \in FreeThreads : t <= u

\* Variant: _start_listening without its test of is_listening.
start_listening_again(note) ==
    /\ FreeThreads # {}
    /\ is_listening' = TRUE
    /\ messages' = messages \o note \o <<Msg("status", "Listening")>>
    /\ IF is_recording
       THEN UNCHANGED <<is_recording, audio_queue>>
       ELSE is_recording' = TRUE /\ audio_queue' = <<>>
    /\ pc' = [pc EXCEPT ![NewThread] = "entry"]
    /\ UNCHANGED <<transcribed, fed, last_wake_frame, speech_gap, speech_onset>>

\* GenieWhisperServer._start_listening, with `note` the messages its caller
\* has sent just before.
start_listening(note) ==
    IF is_listening
    THEN /\ messages' = messages \o note
         /\ UNCHANGED <<is_listening, is_recording, audio_queue, pc,
                        transcribed, fed, last_wake_frame, speech_gap, speech_onset>>
    ELSE /\ FreeThreads # {}
         /\ is_listening' = TRUE
         /\ messages' = messages \o note \o <<Msg("status", "Listening")>>
         /\ IF is_recording
            THEN UNCHANGED <<is_recording, audio_queue>>
            ELSE is_recording' = TRUE /\ audio_queue' = <<>>
         /\ pc' = [pc EXCEPT ![NewThread] = "entry"]
         /\ UNCHANGED <<transcribed, fed, last_wake_frame, speech_gap, speech_onset>>

\* _handle_command "start_listening" on the command thread.
StartListening ==
    /\ UNCHANGED cachevars
    /\ main = "running"
    /\ start_listening(<<>>)
    /\ UNCHANGED <<now, config, wake_word_active, main, frames_produced, callbacks,
                   cont, audio_to_process, segstate>>

\* _start_wake_word_detection.wake_word_callback on the wake-word listener thread.
WakeWordCallback ==
    /\ UNCHANGED cachevars
    /\ Alive
    /\ wake_word_active
    /\ callbacks < MaxCallbacks
    /\ callbacks' = callbacks + 1
    /\ start_listening(<<Msg("wake_word_detected", "wake_word")>>)
    /\ UNCHANGED <<now, config, wake_word_active, main, frames_produced,
                   cont, audio_to_process, segstate>>

\* GenieWhisperServer._stop_listening on the command thread. stop_recording
\* returns None while recording (and an empty array when the recording had
\* already failed); len(None) then raises TypeError out of the handler, past
\* _handle_command into start(), whose finally runs _cleanup and ends the
\* command thread.
StopListening ==
    /\ UNCHANGED cachevars
    /\ main = "running"
    /\ IF ~is_listening
       THEN UNCHANGED <<is_listening, is_recording, main, wake_word_active, messages>>
       ELSE /\ is_listening' = FALSE
            /\ is_recording' = FALSE
            /\ IF is_recording
               THEN /\ main' = "crashed"
                    /\ wake_word_active' = FALSE
                    /\ messages' = Append(messages, Msg("status", "Stopped listening"))
               ELSE /\ UNCHANGED <<main, wake_word_active>>
                    /\ messages' = messages \o <<Msg("status", "Stopped listening")>>
                          \o (IF use_vad THEN <<Msg("status", "No speech detected")>>
                              ELSE <<>>)
    /\ UNCHANGED <<now, config, audio_queue, frames_produced, callbacks, threads, segstate,
                   transcribed, fed, last_wake_frame, speech_gap, speech_onset>>

\* The command thread has ended: the interpreter exits and its daemon threads
\* (recording, transcription loops) stop wherever they are.
ProcessExit ==
    /\ UNCHANGED cachevars
    /\ main = "crashed"
    /\ main' = "exited"
    /\ UNCHANGED <<now, config, wake_word_active, is_listening, is_recording,
                   audio_queue, frames_produced, callbacks, threads, segstate, history>>

\* ------------------------------------------------------------ detectors
\* Variant: a detector that answers its own error by "no speech".
is_speech_fail_closed(kind) ==
    CASE kind = "error" -> FALSE
      [] kind \in {"silence", "webrtc_speech"} -> FALSE
      [] OTHER -> TRUE

\* SileroVAD.is_speech / WebRTCVAD.is_speech on a frame of this kind: the
\* verdict of the primary detector (self.vad), with an error inside the
\* detector answered by True. A frame of kind "webrtc_speech" is one the
\* primary detector (Silero) hears no speech in and the second detector
\* (WebRTC) does.
is_speech_vad(kind) ==
    CASE kind = "error" -> TRUE
      [] kind \in {"silence", "webrtc_speech"} -> FALSE
      [] OTHER -> TRUE

\* The verdict of the second detector, self.webrtc_vad, when both detectors
\* are initialised.
is_speech_webrtc(kind) == kind # "silence"

\* The loop's verdict on a frame (lines 1448-1457): the primary VAD's when VAD
\* is enabled (use_vad stands for `self.use_vad and self.audio_processor.vad`:
\* enabled with no detector initialised behaves as disabled), and every chunk
\* is speech otherwise. No is_speech of vad.py lets an exception out, so the
\* except clause of line 1453 has nothing to catch.
is_speech_of(kind) ==
    IF use_vad THEN is_speech_vad(kind) ELSE TRUE

\* self.wake_word_detector.detect(chunk): a match, no match, or an exception
\* out of the call, which nothing in the loop catches (the detector classes
\* of wake_word.py define detect_wake_word and no detect: AttributeError).
DetectOutcomes(kind) ==
    {"raise"} \cup (IF kind = "wake" THEN {"match"} ELSE {"nomatch"})

\* ------------------------------------------------- the transcription loop
Running(t) == pc[t] \in {"entry", "while", "get", "transcribe"}

\* Variant: frames go to the accumulator whatever the gate's state.
GateNeverClosed == FALSE

\* Line 1432: wake-word mode and the gate not armed.
GateClosed == WakeMode /\ ~wake_word_detected

\* Variant: any silent frame after speech ends the utterance.
SilenceAtOnce == now - last_speech_time >= 0

\* Line 1474: the silence after the last speech frame exceeds the threshold.
SilenceExceeded == now - last_speech_time > silence_threshold

\* Variant: the stall check waits one threshold too long.
StallTimeoutLate == speech_active /\ now - last_speech_time > 2 * silence_threshold

\* Line 1482: speech was active and nothing has been heard for too long.
StallTimeout == speech_active /\ now - last_speech_time > silence_threshold

\* Variant: the timeout does not look at speech_active.
WakeTimedOutWhileSpeaking(sa, wwd) ==
    /\ WakeMode /\ wwd
    /\ now - speech_started_time > wake_word_timeout

\* Lines 1487-1488: armed, no speech, and the wake-word timeout has passed.
WakeTimedOut(sa, wwd) ==
    /\ WakeMode /\ wwd /\ ~sa
    /\ now - speech_started_time > wake_word_timeout

\* Variant: the gate is reset only after a transcription that gave text.
ResetsWakeOnText(text) ==
    WakeMode /\ reset_wake_word_after_silence /\ text \notin {"", " "}

\* Line 1544, in the finally clause: whatever the transcription gave.
ResetsWake(text) == WakeMode /\ reset_wake_word_after_silence

\* Frames classified as speech before this one
HasSpoken == accumulated_audio # <<>> \/ transcribed # <<>>

\* _transcription_loop, lines 1413-1423: the state reset on entry.
LoopEntry(t) ==
    /\ UNCHANGED cachevars
    /\ Alive
    /\ pc[t] = "entry"
    /\ speech_active' = FALSE
    /\ accumulated_audio' = <<>>
    /\ last_speech_time' = now
    /\ wake_word_detected' = (activation_mode # "wake_word")
    /\ speech_started_time' = 0
    /\ messages' = Append(messages,
          IF WakeMode THEN IdleNote ELSE Msg("status", "listening_continuously"))
    /\ pc' = [pc EXCEPT ![t] = "while"]
    /\ speech_onset' = 0
    /\ UNCHANGED <<now, config, wake_word_active, main, is_listening, is_recording,
                   audio_queue, frames_produced, callbacks, cont, audio_to_process,
                   transcribed, fed, last_wake_frame, speech_gap>>

\* Variant: only the frames classified as speech are handed over.
BeginTranscribeSpeechOnly(t, acc, site) ==
    /\ audio_to_process' = [audio_to_process EXCEPT ![t] =
                               SelectSeq(acc, LAMBDA f : is_speech_of(f.kind))]
    /\ cont' = [cont EXCEPT ![t] = site]
    /\ pc' = [pc EXCEPT ![t] = "transcribe"]
    /\ transcribed' = Append(transcribed,
          [audio |-> SelectSeq(acc, LAMBDA f : is_speech_of(f.kind)), site |-> site,
           silence |-> now - last_speech_time, armed_by |-> last_wake_frame,
           listening |-> is_listening])

\* _process_accumulated_audio up to the call of transcriber.transcribe, for a
\* non-empty accumulator `acc`; `site` is where the loop called it from.
BeginTranscribe(t, acc, site) ==
    /\ audio_to_process' = [audio_to_process EXCEPT ![t] = acc]
    /\ cont' = [cont EXCEPT ![t] = site]
    /\ pc' = [pc EXCEPT ![t] = "transcribe"]
    /\ transcribed' = Append(transcribed,
          [audio |-> acc, site |-> site,
           silence |-> now - last_speech_time, armed_by |-> last_wake_frame,
           listening |-> is_listening])

\* Variant: the timeout notifies and leaves the gate armed.
WakeTimeoutKeepsArmed(t, sa, wwd, msgs) ==
    /\ speech_active' = sa
    /\ wake_word_detected' = wwd
    /\ messages' = (IF WakeMode /\ wwd /\ ~sa
                       /\ now - speech_started_time > wake_word_timeout
                    THEN Append(msgs, IdleNote) ELSE msgs)
    /\ pc' = [pc EXCEPT ![t] = "while"]

\* Variant: the iteration ends with speech_active as it found it, the reset
\* made while processing the accumulator is lost.
WakeTimeoutKeepsSpeechActive(t, sa, wwd, msgs) ==
    /\ speech_active' = speech_active
    /\ wake_word_detected' = (IF WakeTimedOut(speech_active, wwd) THEN FALSE ELSE wwd)
    /\ messages' = (IF WakeTimedOut(speech_active, wwd)
                    THEN Append(msgs, IdleNote) ELSE msgs)
    /\ pc' = [pc EXCEPT ![t] = "while"]

\* Lines 1486-1491: the wake-word timeout check that ends an iteration which
\* found the queue empty; sa, wwd, msgs are the values the iteration has
\* computed so far.
WakeTimeoutCheck(t, sa, wwd, msgs) ==
    /\ speech_active' = sa
    /\ wake_word_detected' = (IF WakeTimedOut(sa, wwd) THEN FALSE ELSE wwd)
    /\ messages' = (IF WakeTimedOut(sa, wwd) THEN Append(msgs, IdleNote) ELSE msgs)
    /\ pc' = [pc EXCEPT ![t] = "while"]

\* Line 1426 (after the sleep of line 1494), and lines 1496-1500 when the
\* loop condition is false.
LoopWhile(t) ==
    /\ UNCHANGED cachevars
    /\ Alive
    /\ pc[t] = "while"
    /\ IF is_listening
       THEN /\ pc' = [pc EXCEPT ![t] = "get"]
            /\ UNCHANGED <<cont, audio_to_process, transcribed>>
       ELSE IF accumulated_audio # <<>>
            THEN BeginTranscribe(t, accumulated_audio, "flush")
            ELSE /\ pc' = [pc EXCEPT ![t] = "done"]
                 /\ UNCHANGED <<cont, audio_to_process, transcribed>>
    /\ UNCHANGED <<now, config, wake_word_active, main, is_listening, is_recording,
                   audio_queue, frames_produced, callbacks, segstate,
                   messages, fed, last_wake_frame, speech_gap, speech_onset>>

\* Lines 1433-1445: the frame is offered to the wake-word detector.
OfferToWakeGate(t, chunk) ==
    IF wake_word_detector
    THEN \E d \in DetectOutcomes(chunk.kind) :
           CASE d = "raise" ->
                  /\ pc' = [pc EXCEPT ![t] = "dead"]
                  /\ UNCHANGED <<segstate, messages, last_wake_frame, speech_onset>>
             [] d = "match" ->
                  /\ wake_word_detected' = TRUE
                  /\ speech_started_time' = now
                  /\ accumulated_audio' = <<>>
                  /\ speech_active' = FALSE
                  /\ last_speech_time' = now
                  /\ messages' = Append(messages, Msg("status", "wake_word_detected"))
                  /\ last_wake_frame' = chunk.id
                  /\ speech_onset' = 0
                  /\ pc' = [pc EXCEPT ![t] = "while"]
             [] OTHER ->
                  /\ pc' = [pc EXCEPT ![t] = "while"]
                  /\ UNCHANGED <<segstate, messages, last_wake_frame, speech_onset>>
    ELSE /\ pc' = [pc EXCEPT ![t] = "while"]
         /\ UNCHANGED <<segstate, messages, last_wake_frame, speech_onset>>

\* Lines 1428-1476: get_audio_chunk returned a frame.
LoopChunk(t) ==
    /\ UNCHANGED cachevars
    /\ Alive
    /\ pc[t] = "get"
    /\ audio_queue # <<>>
    /\ LET chunk == Head(audio_queue) IN
       /\ audio_queue' = Tail(audio_queue)
       /\ fed' = Append(fed, chunk)
       /\ IF GateClosed
          THEN \* --- Wake Word Detection ---
               /\ OfferToWakeGate(t, chunk)
               /\ UNCHANGED <<cont, audio_to_process, transcribed, speech_gap>>
          ELSE \* --- VAD and Speech Accumulation ---
               IF is_speech_of(chunk.kind)
               THEN /\ speech_active' = TRUE
                    /\ accumulated_audio' = Append(accumulated_audio, chunk)
                    /\ last_speech_time' = now
                    /\ pc' = [pc EXCEPT ![t] = "while"]
                    /\ speech_gap' = (speech_gap \/ (HasSpoken /\ SilenceExceeded))
                    /\ speech_onset' = (IF speech_active THEN speech_onset ELSE now)
                    /\ UNCHANGED <<wake_word_detected, speech_started_time, messages,
                                   last_wake_frame, cont, audio_to_process, transcribed>>
               ELSE IF speech_active
               THEN /\ accumulated_audio' = Append(accumulated_audio, chunk)
                    /\ IF SilenceExceeded
                       THEN BeginTranscribe(t, Append(accumulated_audio, chunk), "frame")
                       ELSE /\ pc' = [pc EXCEPT ![t] = "while"]
                            /\ UNCHANGED <<cont, audio_to_process, transcribed>>
                    /\ UNCHANGED <<speech_active, last_speech_time, wake_word_detected,
                                   speech_started_time, messages, last_wake_frame,
                                   speech_gap, speech_onset>>
               ELSE /\ pc' = [pc EXCEPT ![t] = "while"]
                    /\ UNCHANGED <<segstate, messages, last_wake_frame,
                                   cont, audio_to_process, transcribed,
                                   speech_gap, speech_onset>>
    /\ UNCHANGED <<now, config, wake_word_active, main, is_listening, is_recording,
                   frames_produced, callbacks>>

\* Lines 1479-1491: get_audio_chunk timed out on an empty queue.
LoopEmpty(t) ==
    /\ UNCHANGED cachevars
    /\ Alive
    /\ pc[t] = "get"
    /\ audio_queue = <<>>
    /\ IF StallTimeout
       THEN IF accumulated_audio = <<>>
            THEN \* _process_accumulated_audio, lines 1505-1512
                 /\ WakeTimeoutCheck(t, FALSE,
                       IF WakeMode /\ reset_wake_word_after_silence
                       THEN FALSE ELSE wake_word_detected,
                       IF WakeMode /\ reset_wake_word_after_silence
                       THEN Append(messages, IdleNote) ELSE messages)
                 /\ speech_onset' = 0
                 /\ UNCHANGED <<cont, audio_to_process, transcribed>>
            ELSE /\ BeginTranscribe(t, accumulated_audio, "stall")
                 /\ UNCHANGED <<speech_active, wake_word_detected, messages, speech_onset>>
       ELSE /\ WakeTimeoutCheck(t, speech_active, wake_word_detected, messages)
            /\ UNCHANGED <<cont, audio_to_process, transcribed, speech_onset>>
    /\ UNCHANGED <<now, config, wake_word_active, main, is_listening, is_recording,
                   audio_queue, frames_produced, callbacks, accumulated_audio,
                   last_speech_time, speech_started_time, fed, last_wake_frame,
                   speech_gap>>

\* Variant: the text is tested as it is.
strip_nothing(text) == text

\* text.strip() of a transcription
strip(text) == IF text = " " THEN "" ELSE text

\* Variant: a transcription that gave nothing ends the loop thread.
TranscribePropagates(t, text) ==
    /\ Alive
    /\ pc[t] = "transcribe"
    /\ pc' = [pc EXCEPT ![t] = IF text \in {"", " "} THEN "dead" ELSE "while"]
    /\ IF text \in {"", " "}
       THEN UNCHANGED <<accumulated_audio, speech_active>>
       ELSE accumulated_audio' = <<>> /\ speech_active' = FALSE
    /\ UNCHANGED <<now, config, wake_word_active, main, is_listening, is_recording,
                   audio_queue, frames_produced, callbacks, cont, audio_to_process,
                   last_speech_time, wake_word_detected, speech_started_time,
                   history, cachevars>>

\* _process_accumulated_audio, lines 1525-1547: transcriber.transcribe returns
\* `text` ("" when the transcriber failed or heard nothing); the result is
\* sent and injected, self.cache.set raises AttributeError (the server has
\* no cache attribute) into the except clause, the finally clause resets the
\* state; then the loop goes on from the call site.
TranscribeReturn(t, text) ==
    /\ UNCHANGED cachevars
    /\ Alive
    /\ pc[t] = "transcribe"
    /\ LET sent == IF strip(text) # ""
                   THEN <<Msg("transcription", text), Msg("text_injected", text)>>
                   ELSE <<>>
           wwd == IF ResetsWake(text) THEN FALSE ELSE wake_word_detected
           msgs == messages \o sent \o (IF ResetsWake(text) THEN <<IdleNote>> ELSE <<>>)
       IN  /\ accumulated_audio' = <<>>
           /\ IF cont[t] = "stall"
              THEN WakeTimeoutCheck(t, FALSE, wwd, msgs)
              ELSE /\ speech_active' = FALSE
                   /\ wake_word_detected' = wwd
                   /\ messages' = msgs
                   /\ pc' = [pc EXCEPT ![t] = IF cont[t] = "flush" THEN "done" ELSE "while"]
    /\ cont' = [cont EXCEPT ![t] = "none"]
    /\ audio_to_process' = [audio_to_process EXCEPT ![t] = <<>>]
    /\ speech_onset' = 0
    /\ UNCHANGED <<now, config, wake_word_active, main, is_listening, is_recording,
                   audio_queue, frames_produced, callbacks, last_speech_time,
                   speech_started_time, transcribed, fed, last_wake_frame, speech_gap>>

\* ------------------------------------------------------- specifications
NoLoopYet == \A t \in Threads : pc[t] = "none"

\* One listening session driven from the command thread: the first effective
\* start, every later start_listening that finds the server listening, the
\* stop, and the loop that the start has spawned.
Next ==
    \/ Tick
    \/ \E kind \in FrameKinds : AudioCallback(kind)
    \/ (is_listening \/ NoLoopYet) /\ StartListening
    \/ StopListening
    \/ \E t \in Threads : LoopEntry(t)
    \/ \E t \in Threads : LoopWhile(t)
    \/ \E t \in Threads : LoopChunk(t)
    \/ \E t \in Threads : LoopEmpty(t)
    \/ \E t \in Threads, text \in Texts : TranscribeReturn(t, text)

Spec == Init /\ [][Next]_vars

\* The same session for a server whose AudioProcessor has initialised both
\* detectors (Silero the primary one), VAD in use, manual activation: the
\* capture stream also delivers frames on which the two detectors disagree.
VadInit == Init /\ activation_mode = "manual" /\ use_vad

NextVad ==
    \/ Tick
    \/ \E kind \in FrameKinds \cup {"webrtc_speech"} : AudioCallback(kind)
    \/ (is_listening \/ NoLoopYet) /\ StartListening
    \/ StopListening
    \/ \E t \in Threads : LoopEntry(t)
    \/ \E t \in Threads : LoopWhile(t)
    \/ \E t \in Threads : LoopChunk(t)
    \/ \E t \in Threads : LoopEmpty(t)
    \/ \E t \in Threads, text \in Texts : TranscribeReturn(t, text)

SpecVad == VadInit /\ [][NextVad]_vars

\* Every interleaving of the commands, the wake-word callback, the failure of
\* the recording, the end of the process and the loops, restarts included,
\* under a smaller budget of frames and time.
NextConc ==
    \/ now < MaxConcTime /\ Tick
    \/ \E kind \in FrameKinds : frames_produced < MaxConcFrames /\ AudioCallback(kind)
    \/ RecordingFails
    \/ StartListening
    \/ WakeWordCallback
    \/ StopListening
    \/ ProcessExit
    \/ \E t \in Threads : LoopEntry(t)
    \/ \E t \in Threads : LoopWhile(t)
    \/ \E t \in Threads : LoopChunk(t)
    \/ \E t \in Threads : LoopEmpty(t)
    \/ \E t \in Threads, text \in Texts : TranscribeReturn(t, text)

SpecConc == Init /\ [][NextConc]_vars

\* The commands, the wake-word callback, the failure of the recording and the
\* end of the process in every order, restarts included, within one tick of
\* the clock and with a capture stream that delivers nothing: the loops only
\* ever find the queue empty.
NextCmd ==
    \/ RecordingFails
    \/ StartListening
    \/ WakeWordCallback
    \/ StopListening
    \/ ProcessExit
    \/ \E t \in Threads : LoopEntry(t)
    \/ \E t \in Threads : LoopWhile(t)
    \/ \E t \in Threads : LoopEmpty(t)

SpecCmd == Init /\ [][NextCmd]_vars

\* ------------------------------------------------ the transcription cache
\* TranscriptionCache and WhisperTranscriber.transcribe around it. An audio
\* buffer is the number that stands for its bytes (its md5 key); texts are
\* taken as the formatter leaves them.
MaxSize == 2
MaxFreq == 3

\* set, line 755: a text set this many times is copied to the phrase cache.
promotion_threshold == 3

Audios == {1, 2, 3}
CacheTexts == {"", "a"}

\* _initialize_common_phrases: the list of built-in phrases (one stands for
\* the fifteen of the code).
common_phrases == <<"save file">>

RangeOf(seq) == {seq[i] : i \in DOMAIN seq}
KeysOf(c) == {c[i].key : i \in DOMAIN c}
IndexOf(c, k) == CHOOSE i \in DOMAIN c : c[i].key = k
TextOf(c, k) == c[IndexOf(c, k)].text
RemoveAt(seq, i) == SubSeq(seq, 1, i - 1) \o SubSeq(seq, i + 1, Len(seq))

\* OrderedDict.move_to_end(key)
move_to_end(c, k) == Append(RemoveAt(c, IndexOf(c, k)), c[IndexOf(c, k)])

\* _compute_audio_fingerprint: audios 1 and 2 have features close enough to
\* each other to meet the similarity threshold, audio 3 is unlike both.
compute_audio_fingerprint(a) == (a + 1) \div 2

\* _calculate_audio_similarity(...) >= self.similarity_threshold
Similar(a, k) == compute_audio_fingerprint(a) = compute_audio_fingerprint(k)

\* get, lines 689-697: the first stored fingerprint similar to the audio.
FirstSimilar(fp, a) ==
    LET hits == {i \in DOMAIN fp : Similar(a, fp[i])}
    IN  IF hits = {} THEN 0 ELSE CHOOSE i \in hits : \A j \in hits : i <= j

\* Variant: the fingerprints are scanned before the exact key is looked up.
get_scan_first(c, fp, a) ==
    IF FirstSimilar(fp, a) # 0 /\ fp[FirstSimilar(fp, a)] \in KeysOf(c)
    THEN [kind |-> "audio", text |-> TextOf(c, fp[FirstSimilar(fp, a)])]
    ELSE IF a \in KeysOf(c)
         THEN [kind |-> "exact", text |-> TextOf(c, a)]
         ELSE [kind |-> "miss", text |-> NoText]

\* TranscriptionCache.get, what it returns: the text of the exact entry, else
\* the text stored for the first similar fingerprint (KeyError when the exact
\* cache has no such key), else None.
get(c, fp, a) ==
    IF a \in KeysOf(c)
    THEN [kind |-> "exact", text |-> TextOf(c, a)]
    ELSE IF FirstSimilar(fp, a) # 0
         THEN IF fp[FirstSimilar(fp, a)] \in KeysOf(c)
              THEN [kind |-> "audio", text |-> TextOf(c, fp[FirstSimilar(fp, a)])]
              ELSE [kind |-> "KeyError", text |-> NoText]
         ELSE [kind |-> "miss", text |-> NoText]

\* TranscriptionCache.get: the key of the entry whose text it returns, 0
\* when it returns None or raises.
hit_key(c, fp, a) ==
    IF a \in KeysOf(c) THEN a
    ELSE IF FirstSimilar(fp, a) # 0 /\ fp[FirstSimilar(fp, a)] \in KeysOf(c)
         THEN fp[FirstSimilar(fp, a)]
         ELSE 0

\* TranscriptionCache.get, what it does to the exact cache (line 680).
touched(c, a) == IF a \in KeysOf(c) THEN move_to_end(c, a) ELSE c

\* Variant: the eviction leaves the fingerprints of the popped entries.
enforce_size_limit_cache_only(c, fp) ==
    LET excess == IF Len(c) > max_size THEN Len(c) - max_size ELSE 0
    IN  [cache |-> SubSeq(c, excess + 1, Len(c)), fp |-> fp]

\* _enforce_size_limit, lines 768-774: pops the oldest entries while the
\* exact cache is over max_size, and their fingerprints with them.
enforce_size_limit(c, fp) ==
    LET excess == IF Len(c) > max_size THEN Len(c) - max_size ELSE 0
        evicted == {c[i].key : i \in 1..excess}
    IN  [cache |-> SubSeq(c, excess + 1, Len(c)),
         fp |-> SelectSeq(fp, LAMBDA k : k \notin evicted)]

\* TranscriptionCache.set, lines 744-748 and 759: a key already present keeps
\* its place in the order.
set(c, fp, a, text) ==
    enforce_size_limit(
        IF a \in KeysOf(c)
        THEN [c EXCEPT ![IndexOf(c, a)].text = text]
        ELSE Append(c, [key |-> a, text |-> text]),
        IF a \in RangeOf(fp) THEN fp ELSE Append(fp, a))

\* self.phrase_frequency.get(text_hash, 0)
FrequencyOf(pf, t) == IF t \in KeysOf(pf) THEN pf[IndexOf(pf, t)].n ELSE 0

\* set, lines 751-752: the text's counter goes up by one; a new text is
\* appended to the dict.
count_phrase(pf, t) ==
    IF t \in KeysOf(pf)
    THEN [pf EXCEPT ![IndexOf(pf, t)].n = @ + 1]
    ELSE Append(pf, [key |-> t, n |-> 1])

\* Variant: a text is copied to the phrase cache one insert early.
promote_early(phr, pf, t) ==
    IF FrequencyOf(pf, t) >= promotion_threshold - 1 THEN phr \cup {t} ELSE phr

\* set, lines 754-756.
promote(phr, pf, t) ==
    IF FrequencyOf(pf, t) >= promotion_threshold THEN phr \cup {t} ELSE phr

\* _enforce_size_limit, lines 779-782: sorted(..., reverse=True) is stable,
\* so among equal frequencies the text counted first comes first; the first
\* int(max_size / 2) are kept.
keep_phrases(pf) ==
    {pf[i].key : i \in {i \in DOMAIN pf :
        Cardinality({j \in DOMAIN pf :
            pf[j].n > pf[i].n \/ (pf[j].n = pf[i].n /\ j < i)}) < max_size \div 2}}

\* _enforce_size_limit, lines 776-785: len(self.phrase_cache) > max_size / 2.
prune_phrase_cache(phr, pf) ==
    IF 2 * Cardinality(phr) > max_size THEN phr \cap keep_phrases(pf) ELSE phr

\* The texts of the entries an insert of key a evicts from the exact cache c.
EvictedTexts(c, fp, a, text) ==
    LET r == set(c, fp, a, text)
    IN  {c[i].text : i \in {i \in DOMAIN c : c[i].key \notin KeysOf(r.cache)}}

\* Variant: the texts of the entries evicted from the exact cache leave the
\* phrase cache with them.
set_phrases_evicting(phr, pf, c, fp, a, text) ==
    LET counted == count_phrase(pf, text)
    IN  [phrase_frequency |-> counted,
         phrase_cache |-> prune_phrase_cache(promote(phr, counted, text), counted)
                              \ EvictedTexts(c, fp, a, text)]

\* set, what it leaves in the phrase cache and in the counters.
set_phrases(phr, pf, c, fp, a, text) ==
    LET counted == count_phrase(pf, text)
    IN  [phrase_frequency |-> counted,
         phrase_cache |-> prune_phrase_cache(promote(phr, counted, text), counted)]

\* _initialize_common_phrases, lines 487-491, from the i-th phrase on.
RECURSIVE initialize_common_phrases(_, _)
initialize_common_phrases(pf, i) ==
    IF i > Len(common_phrases) THEN pf
    ELSE initialize_common_phrases(
            IF common_phrases[i] \in KeysOf(pf)
            THEN [pf EXCEPT ![IndexOf(pf, common_phrases[i])].n = 1]
            ELSE Append(pf, [key |-> common_phrases[i], n |-> 1]),
            i + 1)

\* History: a key has just been accessed.
accessed(order, k) == Append(SelectSeq(order, LAMBDA x : x # k), k)

\* The exact caches a persisted file can hold: written by a cache of any
\* max_size.
RECURSIVE Orders(_)
Orders(keys) ==
    IF keys = {} THEN {<<>>}
    ELSE UNION {{<<k>> \o o : o \in Orders(keys \ {k})} : k \in keys}

LoadedCaches ==
    UNION {{[i \in DOMAIN o |-> [key |-> o[i], text |-> txt[o[i]]]] :
              txt \in [Audios -> CacheTexts]} :
           o \in UNION {Orders(ks) : ks \in SUBSET Audios}}

\* _save_persistent_cache, lines 640-651: the counters a cache has written
\* next to the exact cache c, having been given c's first i entries in turn.
RECURSIVE SavedFrequency(_, _)
SavedFrequency(c, i) ==
    IF i = 0 THEN initialize_common_phrases(<<>>, 1)
    ELSE count_phrase(SavedFrequency(c, i - 1), c[i].text)

\* The states persistent_path can be in at construction.
FileStates == {"absent", "corrupt", "ok"}

\* Variant: the except clause leaves what the file held.
load_without_reset(file, c) ==
    [cache |-> c,
     audio_fingerprint_cache |-> [i \in DOMAIN c |-> c[i].key],
     phrase_frequency |-> SavedFrequency(c, Len(c)),
     phrase_cache |-> RangeOf(common_phrases)]

\* _load_persistent_cache, lines 607-627: what it leaves in the cache for a
\* file whose pickled exact cache is c.
load_persistent_cache(file, c) ==
    IF file = "ok"
    THEN [cache |-> c,
          audio_fingerprint_cache |-> [i \in DOMAIN c |-> c[i].key],
          phrase_frequency |-> SavedFrequency(c, Len(c)),
          phrase_cache |-> {t \in RangeOf(common_phrases) \cup CacheTexts :
                              \/ t \in RangeOf(common_phrases)
                              \/ FrequencyOf(SavedFrequency(c, Len(c)), t)
                                     >= promotion_threshold}]
    ELSE [cache |-> <<>>, audio_fingerprint_cache |-> <<>>,
          phrase_frequency |-> <<>>, phrase_cache |-> {}]

\* TranscriptionCache.__init__ (lines 434-463) for a file in state `file`
\* with pickled exact cache c.
Constructed(file, c) ==
    LET r == IF file = "absent"
             THEN [cache |-> <<>>, audio_fingerprint_cache |-> <<>>,
                   phrase_frequency |-> <<>>, phrase_cache |-> {}]
             ELSE load_persistent_cache(file, c)
    IN  [r EXCEPT !.phrase_frequency = initialize_common_phrases(@, 1),
                  !.phrase_cache = @ \cup RangeOf(common_phrases)]

\* TranscriptionCache.__init__ inside WhisperTranscriber.__init__: the caches
\* are what _load_persistent_cache found.
CacheInit ==
    /\ PipelineInit
    /\ activation_mode = "manual" /\ ~use_vad
    /\ max_size \in 1..MaxSize
    /\ persistent_file \in FileStates
    /\ \E c \in LoadedCaches :
          LET r == Constructed(persistent_file, c) IN
          /\ cache = r.cache
          /\ audio_fingerprint_cache = r.audio_fingerprint_cache
          /\ phrase_frequency = r.phrase_frequency
          /\ phrase_cache = r.phrase_cache
    /\ access_order = [i \in DOMAIN cache |-> cache[i].key]
    /\ model_loaded \in BOOLEAN
    /\ tr = NoCall
    /\ stats_pc = "idle"
    /\ api = NoApi
    /\ NoLookups

phrasevars == <<phrase_cache, phrase_frequency, persistent_file>>

\* WhisperTranscriber.transcribe is called (by _process_accumulated_audio on
\* a loop thread), lines 955-965: up to the call of self.cache.get.
TranscribeCall(a) ==
    /\ tr.pc = "idle"
    /\ tr' = IF model_loaded
             THEN [NoCall EXCEPT !.pc = "get", !.audio = a]
             ELSE NoCall
    /\ UNCHANGED <<pipeline, cache, audio_fingerprint_cache, max_size,
                   model_loaded, stats_pc, api, phrasevars, access_order>>

\* Lines 965-977: self.cache.get(audio) and what transcribe makes of it. A
\* KeyError out of get ends in the except clause of line 1073.
CacheGet ==
    /\ tr.pc = "get"
    /\ LET r == get(cache, audio_fingerprint_cache, tr.audio)
           k == hit_key(cache, audio_fingerprint_cache, tr.audio) IN
       /\ cache' = touched(cache, tr.audio)
       /\ access_order' = IF k # 0 THEN accessed(access_order, k) ELSE access_order
       /\ api' = [op |-> "get", audio |-> tr.audio, text |-> r.text, evicted |-> 0]
       /\ tr' = IF r.kind = "KeyError" \/ r.text \notin {NoText, ""}
                THEN NoCall
                ELSE [tr EXCEPT !.pc = "model", !.found = r.text]
    /\ UNCHANGED <<pipeline, audio_fingerprint_cache, max_size, model_loaded,
                   stats_pc, phrasevars>>

\* Lines 979-1064 and 1073-1075: the Whisper model transcribes, or raises.
ModelTranscribes(text) ==
    /\ tr.pc = "model"
    /\ tr' = IF text = NoText
             THEN NoCall
             ELSE [tr EXCEPT !.pc = "set", !.invoked = TRUE, !.text = text]
    /\ UNCHANGED <<pipeline, cache, audio_fingerprint_cache, max_size,
                   model_loaded, stats_pc, api, phrasevars, access_order>>

\* TranscriptionCache.set(audio, text), lines 736-763, on the whole cache.
\* The write of lines 762-763 goes to the file at persistent_path, which this
\* object reads in its constructor only: persistent_file stays what the
\* constructor found.
SetEntry(a, text) ==
    /\ FrequencyOf(phrase_frequency, text) < MaxFreq
    /\ LET r == set(cache, audio_fingerprint_cache, a, text)
           p == set_phrases(phrase_cache, phrase_frequency, cache,
                            audio_fingerprint_cache, a, text) IN
       /\ cache' = r.cache
       /\ audio_fingerprint_cache' = r.fp
       /\ phrase_frequency' = p.phrase_frequency
       /\ phrase_cache' = p.phrase_cache
       /\ access_order' = SelectSeq(accessed(access_order, a),
                                    LAMBDA k : k \in KeysOf(r.cache))
       /\ api' = [op |-> "set", audio |-> a, text |-> text,
                  evicted |-> Cardinality(KeysOf(cache) \cup {a}) - Len(r.cache)]
    /\ UNCHANGED <<persistent_file, max_size>>

\* Lines 1067-1071: self.cache.set(audio, text), and the text is returned.
CacheSet ==
    /\ tr.pc = "set"
    /\ SetEntry(tr.audio, tr.text)
    /\ tr' = NoCall
    /\ UNCHANGED <<pipeline, model_loaded, stats_pc>>

\* TranscriptionCache.get called by any other user of the class, between
\* two calls of transcribe and two commands.
DirectGet(a) ==
    /\ tr.pc = "idle" /\ stats_pc = "idle"
    /\ cache' = touched(cache, a)
    /\ access_order' = IF hit_key(cache, audio_fingerprint_cache, a) # 0
                       THEN accessed(access_order,
                                     hit_key(cache, audio_fingerprint_cache, a))
                       ELSE access_order
    /\ api' = [op |-> "get", audio |-> a,
               text |-> get(cache, audio_fingerprint_cache, a).text,
               evicted |-> 0]
    /\ UNCHANGED <<pipeline, audio_fingerprint_cache, max_size, model_loaded,
                   tr, stats_pc, phrasevars>>

\* TranscriptionCache.set called by any other user of the class.
DirectSet(a, text) ==
    /\ tr.pc = "idle" /\ stats_pc = "idle"
    /\ SetEntry(a, text)
    /\ UNCHANGED <<pipeline, model_loaded, tr, stats_pc>>

\* TranscriptionCache.clear, lines 807-817.
Clear ==
    /\ tr.pc = "idle" /\ stats_pc = "idle"
    /\ cache' = <<>>
    /\ audio_fingerprint_cache' = <<>>
    /\ access_order' = <<>>
    /\ api' = [op |-> "clear", audio |-> 0, text |-> NoText, evicted |-> Len(cache)]
    /\ UNCHANGED <<pipeline, max_size, model_loaded, tr, stats_pc, phrasevars>>

\* _handle_command "get_performance" on the command thread, up to the call
\* of self.cache.get_stats (line 1093).
StatsBegin ==
    /\ stats_pc = "idle"
    /\ stats_pc' = "get_stats"
    /\ UNCHANGED <<pipeline, cache, audio_fingerprint_cache, max_size,
                   model_loaded, tr, api, phrasevars, access_order>>

\* get_stats has read the cache's sizes and counters (lines 793-805).
StatsEnd ==
    /\ stats_pc = "get_stats"
    /\ stats_pc' = "idle"
    /\ UNCHANGED <<pipeline, cache, audio_fingerprint_cache, max_size,
                   model_loaded, tr, api, phrasevars, access_order>>

\* The cache and the calls around it; the statistics counters are left out
\* here and followed in SpecStats.
NextCache ==
    \/ \E a \in Audios : TranscribeCall(a) /\ UNCHANGED counters
    \/ CacheGet /\ UNCHANGED counters
    \/ \E text \in CacheTexts \cup {NoText} : ModelTranscribes(text) /\ UNCHANGED counters
    \/ CacheSet /\ UNCHANGED counters
    \/ \E a \in Audios : DirectGet(a) /\ UNCHANGED counters
    \/ \E a \in Audios, text \in CacheTexts : DirectSet(a, text) /\ UNCHANGED counters
    \/ Clear /\ UNCHANGED counters
    \/ StatsBegin /\ UNCHANGED counters
    \/ StatsEnd /\ UNCHANGED counters

SpecCache == CacheInit /\ [][NextCache]_vars

\* ------------------------------------------------ the cache's statistics
MaxLookups == 2

HitsOf(ch, ph, sh, ah) == ch + ph + sh + ah

\* TranscriptionCache.get, lines 670, 675-676 and 693-694: what a lookup of
\* audio `a` does to the counters.
count_get(a) ==
    LET kind == get(cache, audio_fingerprint_cache, a).kind IN
    /\ total_lookups' = total_lookups + 1
    /\ cache_hits' = IF kind = "exact" THEN cache_hits + 1 ELSE cache_hits
    /\ audio_hits' = IF kind \in {"audio", "KeyError"} THEN audio_hits + 1 ELSE audio_hits
    /\ hit_ratio' = IF kind = "miss" THEN hit_ratio
                    ELSE Ratio(HitsOf(cache_hits, phrase_hits, similarity_hits,
                                      audio_hits) + 1,
                               total_lookups + 1)
    /\ UNCHANGED <<phrase_hits, similarity_hits>>

\* _calculate_text_similarity(...) >= self.similarity_threshold: the ratio of
\* difflib.SequenceMatcher is 1.0 for two equal texts (two empty ones too)
\* and at most 0.2 between two different texts of QueryTexts.
text_similar(t1, t2) == t1 = t2

QueryTexts == CacheTexts \cup RangeOf(common_phrases)

\* get_by_text, lines 717-726: the cached text most similar to the query, the
\* first one among equals; NoText when the cache is empty or none is similar.
best_match(c, text) ==
    LET hits == {i \in DOMAIN c : text_similar(text, c[i].text)}
    IN  IF hits = {} THEN NoText
        ELSE c[CHOOSE i \in hits : \A j \in hits : i <= j].text

\* TranscriptionCache.get_by_text, lines 701-734. A best match that is the
\* empty text fails the test of line 729.
GetByText(text) ==
    /\ tr.pc = "idle" /\ stats_pc = "idle"
    /\ IF text \in phrase_cache
       THEN /\ phrase_hits' = phrase_hits + 1
            /\ api' = [op |-> "get_by_text", audio |-> 0, text |-> text, evicted |-> 0]
            /\ UNCHANGED similarity_hits
       ELSE IF best_match(cache, text) \notin {NoText, ""}
       THEN /\ similarity_hits' = similarity_hits + 1
            /\ api' = [op |-> "get_by_text", audio |-> 0,
                       text |-> best_match(cache, text), evicted |-> 0]
            /\ UNCHANGED phrase_hits
       ELSE /\ api' = [op |-> "get_by_text", audio |-> 0, text |-> NoText,
                       evicted |-> 0]
            /\ UNCHANGED <<phrase_hits, similarity_hits>>
    /\ UNCHANGED <<pipeline, cache, audio_fingerprint_cache, max_size, model_loaded,
                   tr, stats_pc, phrasevars, access_order,
                   total_lookups, cache_hits, audio_hits, hit_ratio>>

\* Variant: clear leaves the lookup counter as it is.
clear_hits_only ==
    /\ cache_hits' = 0
    /\ phrase_hits' = 0
    /\ similarity_hits' = 0
    /\ audio_hits' = 0
    /\ hit_ratio' = Ratio(0, 1)
    /\ UNCHANGED total_lookups

\* clear, lines 812-817: what it does to the counters.
clear_counters ==
    /\ total_lookups' = 0
    /\ cache_hits' = 0
    /\ phrase_hits' = 0
    /\ similarity_hits' = 0
    /\ audio_hits' = 0
    /\ hit_ratio' = Ratio(0, 1)

\* The texts stored while the counters are followed.
StatsTexts == {"a"}

\* A cache constructed without a file (with one, the counters are the ones
\* an earlier cache has saved), used through its four operations.
StatsInit == CacheInit /\ persistent_file = "absent" /\ model_loaded

NextStats ==
    \/ \E a \in Audios : total_lookups < MaxLookups /\ DirectGet(a) /\ count_get(a)
    \/ \E text \in QueryTexts :
          phrase_hits + similarity_hits < MaxLookups /\ GetByText(text)
    \/ \E a \in Audios, text \in StatsTexts : DirectSet(a, text) /\ UNCHANGED counters
    \/ Clear /\ clear_counters

SpecStats == StatsInit /\ [][NextStats]_vars

\* ------------------------------------------------ the persistent file
\* _save_persistent_cache, lines 639-655: what pickle.dump writes of the
\* cache (the counters are written next to it).
save_persistent_cache(c, phr, fp, pf) ==
    [cache |-> c, phrase_cache |-> phr, audio_fingerprint_cache |-> fp,
     phrase_frequency |-> pf]

\* _load_persistent_cache, lines 609-617, for a file whose pickled data is
\* `data`, and then _initialize_common_phrases (line 463).
Reconstructed(data) ==
    [cache |-> data.cache,
     audio_fingerprint_cache |-> data.audio_fingerprint_cache,
     phrase_frequency |-> initialize_common_phrases(data.phrase_frequency, 1),
     phrase_cache |-> data.phrase_cache \cup RangeOf(common_phrases)]

\* The cache saves itself (set, lines 762-763, when total_lookups is a
\* multiple of 50) and a new TranscriptionCache of the same max_size is
\* constructed from the file: a restart of the server. hit_ratio is not in
\* the file.
SaveAndReload ==
    /\ tr.pc = "idle" /\ stats_pc = "idle"
    /\ LET r == Reconstructed(save_persistent_cache(cache, phrase_cache,
                                  audio_fingerprint_cache, phrase_frequency)) IN
       /\ cache' = r.cache
       /\ audio_fingerprint_cache' = r.audio_fingerprint_cache
       /\ phrase_frequency' = r.phrase_frequency
       /\ phrase_cache' = r.phrase_cache
    /\ persistent_file' = "ok"
    /\ access_order' = [i \in DOMAIN cache |-> cache[i].key]
    /\ api' = [op |-> "reload", audio |-> 0, text |-> NoText, evicted |-> 0]
    /\ hit_ratio' = Ratio(0, 1)
    /\ UNCHANGED <<pipeline, max_size, model_loaded, tr, stats_pc,
                   total_lookups, cache_hits, phrase_hits, similarity_hits, audio_hits>>

\* The texts stored before a restart: a new one and a built-in phrase.
PersistTexts == {"a"} \cup RangeOf(common_phrases)

\* A cache that is looked up, filled, saved and constructed again from its
\* file; the statistics counters are left out here as in SpecCache.
NextPersist ==
    \/ \E a \in Audios : DirectGet(a) /\ UNCHANGED counters
    \/ \E a \in Audios, text \in PersistTexts : DirectSet(a, text) /\ UNCHANGED counters
    \/ SaveAndReload

SpecPersist == StatsInit /\ [][NextPersist]_vars

\* ------------------------------------------- the wake-word listener
\* WhisperWakeWordDetector._listening_loop (wake_word.py). The capture stream
\* delivers chunks of one second: the sliding window (window_duration, line
\* 332) is two chunks long, the detector's buffer (buffer_duration, line 34)
\* three. consecutive_detections counts in halves, the step by which a
\* round without detection lowers it (line 405).
required_detections == 2
window_size == 2
buffer_size == 3

\* add_audio, lines 86-101, for one chunk: where the next chunk goes.
add_audio(idx) == IF 1 <= buffer_size - idx THEN idx + 1 ELSE 1

\* Lines 377-380: only enough audio for two windows is kept.
keep_recent(n) == IF n > window_size * 2 THEN window_size * 2 ELSE n

\* Lines 397-405: the counter after a round.
after_round(n, detected) ==
    IF detected THEN n + 2 ELSE IF n - 1 > 0 THEN n - 1 ELSE 0

\* One pass of the loop body, lines 364-419, for a chunk taken from the
\* queue: batch_end says that the queue is empty after it (line 383),
\* detected that detect_wake_word answers true for one of the windows. The
\* callback returns.
ListenerChunk(batch_end, detected) ==
    LET n == after_round(consecutive_detections, detected)
        round == batch_end /\ keep_recent(recent_audio + 1) >= window_size
        confirmed == round /\ n >= 2 * required_detections
    IN  /\ buffer_index' = IF confirmed THEN 0 ELSE add_audio(buffer_index)
        /\ recent_audio' = IF confirmed THEN 0 ELSE keep_recent(recent_audio + 1)
        /\ consecutive_detections' =
              IF confirmed THEN 0 ELSE IF round THEN n ELSE consecutive_detections
        /\ rounds' = IF round
                     THEN <<rounds[2], IF detected THEN "hit" ELSE "miss">>
                     ELSE rounds
        /\ called' = confirmed
        /\ UNCHANGED <<now, config, wake_word_active, main, is_listening, is_recording,
                       audio_queue, frames_produced, callbacks, threads, segstate,
                       history>>
        /\ UNCHANGED <<cache, audio_fingerprint_cache, max_size, model_loaded, tr,
                       stats_pc, api, phrase_cache, phrase_frequency,
                       persistent_file, access_order, counters, merging>>

NextWake ==
    \E batch_end \in BOOLEAN, detected \in BOOLEAN : ListenerChunk(batch_end, detected)

SpecWake == Init /\ [][NextWake]_vars

\* ------------------------------------------- the merge of speech segments
\* AudioProcessor.filter_audio, lines 290-329 (HybridVAD._merge_segments is
\* the same algorithm on dictionaries). A segment is [start, end] in samples.
MaxPoint == 2
MaxSegs == 3

Segments == {seg \in [start : 0..MaxPoint, end : 0..MaxPoint] : seg.start <= seg.end}

RECURSIVE SegmentLists(_)
SegmentLists(n) ==
    IF n = 0 THEN {<<>>}
    ELSE SegmentLists(n - 1)
         \cup {Append(l, seg) : l \in {m \in SegmentLists(n - 1) : Len(m) = n - 1},
                                seg \in Segments}

\* list.sort(key=lambda x: x[0]), line 301: stable, an element goes behind
\* the ones that do not start later.
insert_by_start(sorted, seg) ==
    LET before == {i \in DOMAIN sorted : sorted[i].start <= seg.start}
        n == Cardinality(before)
    IN  SubSeq(sorted, 1, n) \o <<seg>> \o SubSeq(sorted, n + 1, Len(sorted))

RECURSIVE sort_by_start(_)
sort_by_start(l) ==
    IF l = <<>> THEN <<>>
    ELSE insert_by_start(sort_by_start(SubSeq(l, 1, Len(l) - 1)), l[Len(l)])

Max(a, b) == IF a >= b THEN a ELSE b

\* Variant: a segment that starts where the current one ends is not merged.
RECURSIVE merge_overlapping_only(_, _, _, _)
merge_overlapping_only(all, i, current, merged) ==
    IF i > Len(all) THEN Append(merged, current)
    ELSE IF all[i].start < current.end
         THEN merge_overlapping_only(all, i + 1,
                 [current EXCEPT !.end = Max(current.end, all[i].end)], merged)
         ELSE merge_overlapping_only(all, i + 1, all[i], Append(merged, current))

\* Lines 304-319: the loop over all_segments[1:], from its i-th element on.
RECURSIVE merge_from(_, _, _, _)
merge_from(all, i, current, merged) ==
    IF i > Len(all) THEN Append(merged, current)
    ELSE IF all[i].start <= current.end
         THEN merge_from(all, i + 1,
                 [current EXCEPT !.end = Max(current.end, all[i].end)], merged)
         ELSE merge_from(all, i + 1, all[i], Append(merged, current))

\* Lines 297-319: merged_segments for the two detectors' lists.
merge_segments(silero, webrtc) ==
    LET all_segments == sort_by_start(silero \o webrtc)
    IN  IF all_segments = <<>> THEN <<>>
        ELSE merge_from(all_segments, 2, all_segments[1], <<>>)

\* Lines 293-295: the two detectors report their segments.
GetSpeechSegments(silero, webrtc) ==
    /\ filter_pc = "start"
    /\ use_vad
    /\ filter_pc' = "segments"
    /\ silero_segments' = silero
    /\ webrtc_segments' = webrtc
    /\ UNCHANGED <<merged_segments, listener>>
    /\ UNCHANGED <<now, config, wake_word_active, main, is_listening, is_recording,
                   audio_queue, frames_produced, callbacks, threads, segstate, history>>
    /\ UNCHANGED <<cache, audio_fingerprint_cache, max_size, model_loaded, tr,
                   stats_pc, api, phrase_cache, phrase_frequency,
                   persistent_file, access_order, counters>>

\* Lines 297-319: the segments are merged.
MergeSegments ==
    /\ filter_pc = "segments"
    /\ filter_pc' = "merged"
    /\ merged_segments' = merge_segments(silero_segments, webrtc_segments)
    /\ UNCHANGED <<silero_segments, webrtc_segments, listener>>
    /\ UNCHANGED <<now, config, wake_word_active, main, is_listening, is_recording,
                   audio_queue, frames_produced, callbacks, threads, segstate, history>>
    /\ UNCHANGED <<cache, audio_fingerprint_cache, max_size, model_loaded, tr,
                   stats_pc, api, phrase_cache, phrase_frequency,
                   persistent_file, access_order, counters>>

\* One call of filter_audio. The detectors report any two lists that hold
\* MaxSegs segments together at most: a list of segments cut in two.
NextMerge ==
    \/ /\ filter_pc = "start"
       /\ \E l \in SegmentLists(MaxSegs) : \E k \in 0..Len(l) :
             GetSpeechSegments(SubSeq(l, 1, k), SubSeq(l, k + 1, Len(l)))
    \/ MergeSegments

\* filter_audio merges only with voice activity detection enabled.
SpecMerge == VadInit /\ [][NextMerge]_vars

\* ------------------------------------------------------------------ claims
\* A loop body runs in this step: thread t leaves get_audio_chunk.
BodyStep(t) == pc[t] = "get" /\ pc'[t] # "get"

SpeechFrame(f) == is_speech_of(f.kind)
Ids(seq) == {seq[i].id : i \in DOMAIN seq}

\* The frames taken so far are n frames without speech, then m >= 1 frames
\* with speech, then frames without speech.
OneBurst(seq) ==
    \E n \in 0..Len(seq), m \in 1..Len(seq) :
        /\ n + m <= Len(seq)
        /\ \A i \in DOMAIN seq : SpeechFrame(seq[i]) <=> (n < i /\ i <= n + m)

C1_Scenario == activation_mode # "wake_word" /\ OneBurst(fed)

C1_Outcome ==
    /\ Len(transcribed) <= 1
    /\ \A i \in DOMAIN transcribed :
          /\ transcribed[i].site # "flush" => transcribed[i].silence > silence_threshold
          /\ {f.id : f \in {fed[j] : j \in {k \in DOMAIN fed : SpeechFrame(fed[k])}}}
                \subseteq Ids(transcribed[i].audio)
    /\ (Len(transcribed) = 1 /\ \A t \in Threads : pc[t] # "transcribe")
          => (~speech_active /\ accumulated_audio = <<>>)

\* C1 as stated: for every sequence of silent, then speech, then silent frames
\* taken by the loop with wake-word gating off, at most one utterance is
\* dispatched, it is dispatched (while listening) only once the silence since
\* the last speech frame exceeds the threshold, it holds every speech frame,
\* and after it speechActive is false and the accumulator is empty.
C1_Original == C1_Scenario => C1_Outcome

\* The loop takes a silent frame while speech is active and the silence since
\* the last speech frame exceeds the threshold: it dispatches in that step.
C1_DispatchOnSilence ==
    \A t \in Threads :
        (/\ BodyStep(t)
         /\ C1_Scenario /\ ~speech_gap
         /\ audio_queue # <<>> /\ ~SpeechFrame(Head(audio_queue))
         /\ speech_active /\ now - last_speech_time > silence_threshold)
        => /\ Len(transcribed') = Len(transcribed) + 1
           /\ transcribed'[Len(transcribed')].audio = Append(accumulated_audio, Head(audio_queue))

\* C1, amended: the same, for sequences whose consecutive speech frames reach
\* the loop no further apart than silenceThreshold; then exactly one utterance
\* is dispatched: at most one ever, and one in the very iteration that takes a
\* silent frame with the silence since the last speech frame above the
\* threshold; further silent frames dispatch nothing.
C1_OneUtterance ==
    /\ []((C1_Scenario /\ ~speech_gap) => C1_Outcome)
    /\ [][C1_DispatchOnSilence]_vars

\* C1 witness: speech, then a silent frame that dispatched the one utterance,
\* then a further silent frame taken after the reset.
C1_Witness ==
    /\ C1_Scenario /\ ~speech_gap
    /\ Len(transcribed) = 1 /\ transcribed[1].site = "frame"
    /\ Len(fed) > Len(transcribed[1].audio)
    /\ ~SpeechFrame(fed[Len(fed)])
    /\ fed[Len(fed)].id \notin Ids(transcribed[1].audio)
    /\ ~speech_active /\ accumulated_audio = <<>>

\* C2: an iteration that finds the queue empty while speech is active and
\* more than silence_threshold has passed since the last speech frame emits
\* the accumulated audio in that iteration, no frame having been taken.
C2_StallEmits ==
    [][\A t \in Threads :
        (/\ BodyStep(t)
         /\ audio_queue = <<>>
         /\ speech_active /\ now - last_speech_time > silence_threshold)
        => /\ fed' = fed
           /\ pc'[t] = "transcribe"
           /\ Len(transcribed') = Len(transcribed) + 1
           /\ transcribed'[Len(transcribed')].audio = accumulated_audio
           /\ transcribed'[Len(transcribed')].site = "stall"]_vars

\* C2 witness: an utterance emitted by a stall, and processed.
C2_Witness ==
    /\ \E i \in DOMAIN transcribed :
          transcribed[i].site = "stall" /\ transcribed[i].audio # <<>>
    /\ \A t \in Threads : pc[t] # "transcribe"
    /\ ~speech_active

\* C3: in wake-word mode the accumulator is empty while the gate is not
\* armed, it holds only frames taken after the frame that last armed the
\* gate, and so does every dispatched utterance.
C3_GateKeepsFramesOut ==
    WakeMode =>
        /\ ~wake_word_detected => accumulated_audio = <<>>
        /\ \A i \in DOMAIN accumulated_audio :
              last_wake_frame > 0 /\ accumulated_audio[i].id > last_wake_frame
        /\ \A i \in DOMAIN transcribed :
              /\ transcribed[i].armed_by > 0
              /\ \A j \in DOMAIN transcribed[i].audio :
                    transcribed[i].audio[j].id > transcribed[i].armed_by

\* C3 witness: a frame discarded before the wake phrase, the wake phrase, then
\* an utterance dispatched.
C3_Witness ==
    /\ WakeMode
    /\ \E i \in DOMAIN transcribed :
          transcribed[i].armed_by >= 2 /\ transcribed[i].audio # <<>>

\* C4 as stated: an iteration that runs while the gate is armed, no speech is
\* active and more than wake_word_timeout has passed since arming returns the
\* gate to Idle, whether it found the queue empty or took a non-speech frame.
C4_TimeoutWhateverArrives ==
    [][\A t \in Threads :
        (/\ BodyStep(t)
         /\ WakeMode /\ wake_word_detected /\ ~speech_active
         /\ now - speech_started_time > wake_word_timeout
         /\ (audio_queue = <<>> \/ ~SpeechFrame(Head(audio_queue))))
        => ~wake_word_detected']_vars

LastArming ==
    LET at == {i \in DOMAIN messages : messages[i] = Msg("status", "wake_word_detected")}
    IN  IF at = {} THEN 0 ELSE CHOOSE i \in at : \A j \in at : j <= i

IdleNotesSinceArming ==
    Cardinality({i \in DOMAIN messages : i > LastArming /\ messages[i] = IdleNote})

\* C5: once the gate has been armed, exactly one 'listening_for_wake_word'
\* notification has followed the latest arming when the gate is Idle, and none
\* while it is still armed.
C5_OneIdleNotification ==
    (WakeMode /\ LastArming > 0) =>
        IdleNotesSinceArming = (IF wake_word_detected THEN 0 ELSE 1)

\* C5 witness: armed, no utterance ever dispatched, and back to Idle: by the
\* timeout.
C5_Witness ==
    /\ WakeMode /\ LastArming > 0
    /\ transcribed = <<>>
    /\ ~wake_word_detected
    /\ \E t \in Threads : pc[t] = "while"
    /\ is_listening

\* Utterance i is still inside transcriber.transcribe.
InFlight(i) ==
    /\ i = Len(transcribed)
    /\ \E t \in Threads : pc[t] = "transcribe" /\ audio_to_process[t] = transcribed[i].audio

\* C6: in wake-word mode with reset_wake_word_after_silence, the gate is not
\* armed by the wake phrase of an utterance that has been processed, whatever
\* its transcription gave; and the accumulator is empty while the gate is Idle.
C6_IdleAfterUtterance ==
    (WakeMode /\ reset_wake_word_after_silence) =>
        /\ \A i \in DOMAIN transcribed :
              (wake_word_detected /\ transcribed[i].armed_by = last_wake_frame)
                 => InFlight(i)
        /\ (~wake_word_detected /\ \A t \in Threads : pc[t] # "transcribe")
              => (accumulated_audio = <<>> /\ ~speech_active)

\* C6 witness: an utterance whose transcription gave no text has been
\* processed while listening, and the gate is Idle.
C6_Witness ==
    /\ WakeMode /\ reset_wake_word_after_silence
    /\ transcribed # <<>>
    /\ \E t \in Threads : pc[t] = "while"
    /\ is_listening
    /\ \A i \in DOMAIN messages : messages[i].type # "transcription"
    /\ ~wake_word_detected

\* C7 as stated: no utterance shorter than the minimum duration reaches the
\* transcriber.
C7_ShortUtteranceDiscarded ==
    \A i \in DOMAIN transcribed : Len(transcribed[i].audio) >= MinUtteranceFrames

\* C8: a frame on which the speech detector fails, taken while the gate lets
\* frames through and VAD is in use, is appended to the accumulator, sets
\* speech_active and refreshes last_speech_time, and the loop goes on.
C8_DetectorErrorIsSpeech ==
    [][\A t \in Threads :
        (/\ BodyStep(t)
         /\ audio_queue # <<>> /\ Head(audio_queue).kind = "error"
         /\ use_vad /\ ~GateClosed)
        => /\ speech_active'
           /\ accumulated_audio' = Append(accumulated_audio, Head(audio_queue))
           /\ last_speech_time' = now
           /\ pc'[t] = "while"]_vars

\* C8 witness: two frames in a row on which the detector failed, both in the
\* accumulator.
C8_Witness ==
    /\ use_vad /\ speech_active
    /\ Len(accumulated_audio) >= 2
    /\ \A i \in DOMAIN accumulated_audio : accumulated_audio[i].kind = "error"
    /\ last_speech_time > 0

\* C9 as stated: a hard timeout ends an utterance: an iteration that takes one
\* more speech frame when speech has been active for longer than the timeout
\* dispatches the utterance instead of letting the accumulator grow.
C9_HardTimeout ==
    [][\A t \in Threads :
        (/\ BodyStep(t)
         /\ audio_queue # <<>> /\ SpeechFrame(Head(audio_queue))
         /\ ~GateClosed
         /\ speech_active /\ now - speech_onset > HardTimeout)
        => /\ Len(transcribed') = Len(transcribed) + 1
           /\ Len(accumulated_audio') <= Len(accumulated_audio)]_vars

\* C10 as stated: at most one transcription loop is running at any time.
C10_SingleLoop ==
    Cardinality({t \in Threads : pc[t] \in {"while", "get", "transcribe"}}) <= 1

\* C11 as stated: no operation on the cache runs while another thread is
\* inside an operation on the same cache: the loop thread is not inside get
\* or set while the command thread is inside get_stats.
C11_CacheOpsExclusive ==
    ~(tr.pc \in {"get", "set"} /\ stats_pc = "get_stats")

\* C12 as stated: utterances are transcribed one at a time: no transcription
\* begins before the one before it has completed.
C12_OneAtATime ==
    Cardinality({t \in Threads : pc[t] = "transcribe"}) <= 1

\* C13 as stated: audio that is in the accumulator when listening is stopped
\* is handed to the transcriber: the server does not end with frames in the
\* accumulator that no call of the transcriber was given.
C13_FlushOnStop ==
    (main = "exited" /\ ~is_listening) =>
        \/ accumulated_audio = <<>>
        \/ \E i \in DOMAIN transcribed : transcribed[i].audio = accumulated_audio

\* C14 as stated: in wake-word mode, once listening has been stopped and the
\* transcription loop has exited, the gate is Idle.
C14_IdleAfterStop ==
    (WakeMode /\ ~is_listening /\ \E t \in Threads : pc[t] = "done")
        => ~wake_word_detected

Transcriptions(msgs) ==
    Cardinality({i \in DOMAIN msgs : msgs[i].type = "transcription"})

\* C15 as stated: a transcriber call begun while listening that returns
\* after listening was stopped has its result discarded: no transcription
\* message is sent for it.
C15_ResultDiscardedAfterStop ==
    [][\A t \in Threads :
        (/\ pc[t] = "transcribe" /\ pc'[t] # "transcribe"
         /\ transcribed[Len(transcribed)].audio = audio_to_process[t]
         /\ transcribed[Len(transcribed)].listening
         /\ ~is_listening)
        => Transcriptions(messages') = Transcriptions(messages)]_vars

\* C16: whatever the transcriber returns, its failure answered by an empty
\* text included, the segmentation state is reset when the call returns and
\* the loop goes on (it ends only after the flush at the end of listening);
\* an empty text sends no transcription.
C16_FailureDoesNotStopLoop ==
    [][\A t \in Threads :
        (pc[t] = "transcribe" /\ pc'[t] # "transcribe")
        => /\ ~speech_active' /\ accumulated_audio' = <<>>
           /\ pc'[t] = (IF cont[t] = "flush" THEN "done" ELSE "while")
           /\ Transcriptions(messages') <= Transcriptions(messages) + 1]_vars

\* C16 witness: a first utterance whose transcription gave nothing, and a
\* second one dispatched by the same loop while still listening.
C16_Witness ==
    /\ Len(transcribed) >= 2
    /\ Transcriptions(messages) = 0
    /\ \A i \in DOMAIN transcribed : transcribed[i].site # "flush"
    /\ is_listening
    /\ \E t \in Threads : pc[t] = "transcribe"

\* C17 as stated: when the lookup found an entry for the audio, whatever its
\* text, the external model is not invoked: the call goes from the lookup
\* straight to its return.
C17_HitSkipsModel ==
    tr.found # NoText => (~tr.invoked /\ tr.pc \notin {"model", "set"})

\* C18 as stated: the frame queue never holds more than a fixed number of
\* frames.
QueueBound == MaxFrames - 1

C18_QueueBounded ==
    Len(audio_queue) <= QueueBound

\* C19 as stated: right after an insert of (audio, text) into a cache with
\* max_size >= 1, the lookup of that audio returns that text by the exact
\* path.
C19_InsertThenLookup ==
    (api.op = "set" /\ max_size >= 1)
        => get(cache, audio_fingerprint_cache, api.audio)
              = [kind |-> "exact", text |-> api.text]

\* C20 as stated: after a completed operation on the cache, the exact cache
\* holds at most max_size entries.
C20_SizeWithinMax ==
    api.op # "none" => Len(cache) <= max_size

\* A step that is a completed TranscriptionCache.set (every set counts its
\* text).
SetStep == api'.op = "set" /\ phrase_frequency' # phrase_frequency

\* C21 as stated: an insert of a new key into a cache holding max_size
\* entries leaves max_size entries, and the entry an insert evicts is the
\* least recently accessed one, inserts (of new and of present keys) and
\* lookup hits (exact and by similarity) counting as accesses.
C21_EvictsLeastRecentlyAccessed ==
    [][(SetStep /\ Len(cache) <= max_size) =>
          /\ (api'.audio \notin KeysOf(cache) /\ Len(cache) = max_size)
                 => Len(cache') = max_size
          /\ KeysOf(cache) \ KeysOf(cache') # {}
                 => KeysOf(cache) \ KeysOf(cache') = {access_order[1]}]_vars

\* C22: the exact cache and the fingerprint index hold the same keys, so
\* the lookup never meets a fingerprint without a transcript.
C22_SameKeys ==
    /\ KeysOf(cache) = RangeOf(audio_fingerprint_cache)
    /\ \A a \in Audios : get(cache, audio_fingerprint_cache, a).kind # "KeyError"

\* C22 witness: an insert has just evicted an entry and left others.
C22_Witness ==
    /\ api.op = "set" /\ api.evicted >= 1
    /\ Len(cache) >= 1 /\ Len(cache) = Len(audio_fingerprint_cache)

\* C23: constructed over a file that cannot be read back, the cache starts
\* with an empty exact cache and an empty fingerprint index, whatever the file
\* held.
C23_CorruptFileGivesEmptyCache ==
    (persistent_file = "corrupt" /\ api.op = "none")
        => (cache = <<>> /\ audio_fingerprint_cache = <<>>)

\* C23 witness: the constructor has run to its end over a corrupt file.
C23_Witness ==
    /\ persistent_file = "corrupt" /\ api.op = "none"
    /\ phrase_cache = RangeOf(common_phrases)
    /\ cache = <<>>

\* C24 as stated: in every state of the cache, from its construction on, the
\* phrase cache holds at most max_size / 2 entries.
C24_PhraseCacheCapped ==
    2 * Cardinality(phrase_cache) <= max_size

\* C25 as stated: after an insert whose text has then been counted
\* promotion_threshold times or more the text is in the phrase cache, and an
\* insert that leaves the counter below the threshold does not add it.
C25_Original ==
    [][SetStep =>
          LET f == FrequencyOf(phrase_frequency', api'.text) IN
          /\ f >= promotion_threshold => api'.text \in phrase_cache'
          /\ f < promotion_threshold
                => (api'.text \in phrase_cache' => api'.text \in phrase_cache)]_vars

\* C25 amended: an insert adds its text to the phrase cache only when the
\* text's counter has reached promotion_threshold, and then the text is in
\* the phrase cache after the insert unless the cap of the same insert took
\* it out again: the table was over max_size / 2 and the text is not among
\* the int(max_size / 2) most counted texts.
C25_PromotedUnlessPruned ==
    [][SetStep =>
          LET f == FrequencyOf(phrase_frequency', api'.text) IN
          /\ (api'.text \in phrase_cache' /\ api'.text \notin phrase_cache)
                => f >= promotion_threshold
          /\ (f >= promotion_threshold /\ api'.text \notin phrase_cache')
                => /\ 2 * Cardinality(phrase_cache \cup {api'.text}) > max_size
                   /\ api'.text \notin keep_phrases(phrase_frequency')]_vars

\* C25 witness: the last insert brought its text's counter to the threshold
\* and the text is in the phrase cache.
C25_Witness ==
    /\ api.op = "set"
    /\ FrequencyOf(phrase_frequency, api.text) = promotion_threshold
    /\ api.text \in phrase_cache
    /\ persistent_file = "absent"

\* C26: a text leaves the phrase cache only by the cap on the phrase cache
\* (the table over max_size / 2 and the text not among the most counted),
\* never because entries were evicted from the exact cache.
C26_EvictionKeepsPhrases ==
    [][\A x \in phrase_cache \ phrase_cache' :
          /\ SetStep
          /\ 2 * Cardinality(promote(phrase_cache, phrase_frequency', api'.text))
                 > max_size
          /\ x \notin keep_phrases(phrase_frequency')]_vars

\* C26 witness: an insert has just evicted an entry, and the phrase cache
\* holds a promoted text that no entry of the exact cache carries any more.
C26_Witness ==
    /\ api.op = "set" /\ api.evicted >= 1
    /\ \E x \in phrase_cache \cap CacheTexts :
          \A i \in DOMAIN cache : cache[i].text # x

\* C27 as stated: with VAD in use and the gate letting frames through, a
\* frame that at least one of the initialised detectors classifies as speech
\* takes the speech branch of the loop: it is appended to the accumulator,
\* sets speech_active and refreshes last_speech_time.
C27_AnyDetectorMakesSpeech ==
    [][\A t \in Threads :
        (/\ BodyStep(t)
         /\ audio_queue # <<>>
         /\ use_vad /\ ~GateClosed
         /\ (is_speech_vad(Head(audio_queue).kind)
               \/ is_speech_webrtc(Head(audio_queue).kind)))
        => /\ speech_active'
           /\ accumulated_audio' = Append(accumulated_audio, Head(audio_queue))
           /\ last_speech_time' = now]_vars

\* The id of the last frame that cannot belong to the utterance dispatched
\* as the n-th: the last frame of the utterance before it, or the frame that
\* armed the gate for it.
Boundary(tr_, n) ==
    LET prev == IF n > 1 THEN tr_[n - 1].audio[Len(tr_[n - 1].audio)].id ELSE 0
    IN  IF tr_[n].armed_by > prev THEN tr_[n].armed_by ELSE prev

\* C28: an utterance handed to the transcriber, from whichever of the three
\* call sites, is not empty, starts with the first frame classified as speech
\* since the utterance before it (or since the gate was armed), and is every
\* frame the loop has taken from that one on, in the order taken.
C28_UtteranceIsEveryFrame ==
    [][Len(transcribed') = Len(transcribed) + 1 =>
          LET n == Len(transcribed')
              u == transcribed'[n].audio
              k == Len(fed') - Len(u) + 1
          IN  /\ u # <<>>
              /\ k >= 1
              /\ u = SubSeq(fed', k, Len(fed'))
              /\ u = audio_to_process'[CHOOSE t \in Threads : pc'[t] = "transcribe"]
              /\ SpeechFrame(u[1])
              /\ \A i \in 1..(k - 1) :
                    fed'[i].id > Boundary(transcribed', n) => ~SpeechFrame(fed'[i])]_vars

\* C28 witness: a frame without speech left out, then an utterance of a
\* speech frame and the silent frame that followed it.
C28_Witness ==
    /\ Len(fed) >= 3 /\ ~SpeechFrame(fed[1])
    /\ \E i \in DOMAIN transcribed :
          /\ Len(transcribed[i].audio) = 2
          /\ transcribed[i].audio[1].id = 2
          /\ ~SpeechFrame(transcribed[i].audio[2])

\* C29: while speech is active the armed gate is left armed by every step
\* but the return of the transcription of the utterance: no iteration of the
\* loop returns it to Idle, however long ago it was armed.
C29_ArmedWhileSpeechActive ==
    [][(WakeMode /\ wake_word_detected /\ speech_active /\ ~wake_word_detected')
          => \E t \in Threads : pc[t] = "transcribe" /\ pc'[t] # "transcribe"]_vars

\* C29 witness: an iteration that found the queue empty later than
\* wake_word_timeout after the arming, with speech active, has dispatched the
\* utterance, and the gate is still armed.
C29_Witness ==
    /\ WakeMode /\ wake_word_detected /\ speech_active
    /\ \E t \in Threads : pc[t] = "transcribe" /\ cont[t] = "stall"
    /\ transcribed # <<>>
    /\ transcribed[Len(transcribed)].silence + last_speech_time - speech_started_time
          > wake_word_timeout

\* The messages a step has sent.
Sent == SubSeq(messages', Len(messages) + 1, Len(messages'))

\* C30: the return of a transcription never sends a transcription message
\* or an injection for a text that is empty or blank, and whatever the text
\* it leaves speech_active false and the accumulator empty and, when
\* reset_wake_word_after_silence is set, the gate Idle with its notification
\* sent.
C30_BlankTextIsDropped ==
    [][\A t \in Threads :
        (pc[t] = "transcribe" /\ pc'[t] # "transcribe")
        => /\ \A i \in DOMAIN Sent :
                 Sent[i].type \in {"transcription", "text_injected"}
                    => Sent[i].data \notin {"", " "}
           /\ ~speech_active' /\ accumulated_audio' = <<>>
           /\ (WakeMode /\ reset_wake_word_after_silence)
                 => (~wake_word_detected' /\ IdleNote \in RangeOf(Sent))
           /\ ~(WakeMode /\ reset_wake_word_after_silence)
                 => \A i \in DOMAIN Sent : Sent[i].type # "status"
                                             \/ cont[t] = "stall"]_vars

\* C30 witness: in wake-word mode an utterance has been processed, nothing
\* was sent for it but the notification of the gate's return to Idle.
C30_Witness ==
    /\ WakeMode /\ reset_wake_word_after_silence
    /\ transcribed # <<>>
    /\ \A t \in Threads : pc[t] \notin {"transcribe", "dead"}
    /\ \A i \in DOMAIN messages :
          messages[i].type \notin {"transcription", "text_injected"}
    /\ messages[Len(messages)] = IdleNote
    /\ ~speech_active /\ accumulated_audio = <<>> /\ ~wake_word_detected
    /\ is_listening

\* A step in which TranscriptionCache.get completes.
GetStep == api'.op = "get" /\ (api' # api \/ cache' # cache)

\* The stored fingerprints that meet the similarity threshold for an audio.
SimilarAt(fp, a) == {i \in DOMAIN fp : Similar(a, fp[i])}

\* C31: a lookup whose exact key is present returns that entry's own text,
\* whatever similar entries are stored before it, and makes the entry the most
\* recently used one, the other entries keeping their order; a lookup whose
\* exact key is absent leaves the cache as it is and returns the text of the
\* first stored fingerprint that is similar, nothing when none is.
C31_ExactFirstThenScan ==
    [][GetStep =>
          LET a == api'.audio
              others(c) == SelectSeq(c, LAMBDA e : e.key # a)
              S == SimilarAt(audio_fingerprint_cache, a) IN
          IF a \in KeysOf(cache)
          THEN /\ api'.text = TextOf(cache, a)
               /\ Len(cache') = Len(cache)
               /\ cache'[Len(cache')] = [key |-> a, text |-> TextOf(cache, a)]
               /\ others(cache') = others(cache)
          ELSE /\ cache' = cache
               /\ S = {} => api'.text = NoText
               /\ S # {} =>
                     \E i \in S :
                        /\ \A j \in S : i <= j
                        /\ api'.text = TextOf(cache, audio_fingerprint_cache[i])]_vars

\* C31 witness: an exact hit has returned its own text although a similar
\* entry with another text is stored before it in the fingerprint index; the
\* entry is the last of the cache.
C31_Witness ==
    /\ api.op = "get" /\ cache # <<>>
    /\ cache[Len(cache)].key = api.audio
    /\ api.text = cache[Len(cache)].text
    /\ \E i \in SimilarAt(audio_fingerprint_cache, api.audio) :
          /\ audio_fingerprint_cache[i] # api.audio
          /\ i < CHOOSE j \in DOMAIN audio_fingerprint_cache :
                     audio_fingerprint_cache[j] = api.audio
          /\ TextOf(cache, audio_fingerprint_cache[i]) # api.text

\* C31 witness of the other branch: a lookup without an exact entry has
\* returned the text of a similar one.
C31_WitnessScan ==
    /\ api.op = "get" /\ api.audio \notin KeysOf(cache)
    /\ api.text # NoText

\* C32: whenever a transcription loop stands at its iteration boundary (line
\* 1426), the accumulator holds frames if and only if speech_active is true.
C32_AccumulatorIffSpeechActive ==
    \A t \in Threads :
       pc[t] = "while" => ((accumulated_audio # <<>>) <=> speech_active)

\* C32 witness: the loop is at its boundary with frames accumulated, after an
\* utterance has already been handed over and the accumulator emptied.
C32_Witness ==
    /\ \E t \in Threads : pc[t] = "while"
    /\ transcribed # <<>>
    /\ accumulated_audio # <<>> /\ speech_active

\* The stop_listening calls that have set is_listening to false so far.
StopsSent ==
    Cardinality({i \in DOMAIN messages :
                    messages[i] = Msg("status", "Stopped listening")})

\* Loop t was started before a stop_listening that took effect: the t-th loop
\* is started by the t-th effective start_listening, which the t-th effective
\* stop_listening follows.
StoppedLoop(t) == StopsSent >= t

\* The loops that have made their final flush or are making it.
Flushing == {t \in Threads : pc[t] = "done" \/ (pc[t] = "transcribe" /\ cont[t] = "flush")}

\* C33: a loop that was running when stop_listening set is_listening to false
\* does not begin another iteration once it reaches its loop test: from there
\* it goes to its final flush or ends; no loop flushes more than once, and
\* when every loop has ended the segmentation state changes no more.
C33_LoopExitsAfterStop ==
    [][/\ \A t \in Threads :
             /\ (StoppedLoop(t) /\ pc[t] = "while")
                   => /\ pc'[t] \in {"while", "transcribe", "done"}
                      /\ pc'[t] = "transcribe" => cont'[t] = "flush"
             /\ pc[t] = "done" => pc'[t] = "done"
       /\ Cardinality({i \in DOMAIN transcribed' : transcribed'[i].site = "flush"})
             <= Cardinality(Flushing')
       /\ (\A t \in Threads : pc[t] \in {"none", "done", "dead"} /\ StoppedLoop(t))
             => UNCHANGED segstate]_vars

\* The messages of a given status sent so far.
StatusCount(msgs, d) ==
    Cardinality({i \in DOMAIN msgs : msgs[i] = Msg("status", d)})

\* C34: while the server is listening nothing starts a transcription loop or
\* a recording or sends the status "Listening", and while it is not listening
\* nothing sends "Stopped listening" or "No speech detected"; is_listening
\* changes only together with the status message of the start or stop that
\* took effect.
C34_RepeatedCommandIsNoOp ==
    [][/\ is_listening =>
             /\ \A t \in Threads : pc[t] = "none" => pc'[t] = "none"
             /\ is_recording' => is_recording
             /\ StatusCount(messages', "Listening") = StatusCount(messages, "Listening")
       /\ ~is_listening =>
             /\ StatusCount(messages', "Stopped listening")
                   = StatusCount(messages, "Stopped listening")
             /\ StatusCount(messages', "No speech detected")
                   = StatusCount(messages, "No speech detected")
       /\ (is_listening /\ ~is_listening')
             => StatusCount(messages', "Stopped listening")
                   = StatusCount(messages, "Stopped listening") + 1
       /\ (~is_listening /\ is_listening')
             => StatusCount(messages', "Listening")
                   = StatusCount(messages, "Listening") + 1]_vars

\* C34 witness: the wake-word callback has called start_listening while the
\* server was listening (its own message is the last one sent): one loop, one
\* "Listening" status.
C34_Witness ==
    /\ is_listening /\ is_recording
    /\ messages # <<>>
    /\ messages[Len(messages)] = Msg("wake_word_detected", "wake_word")
    /\ StatusCount(messages, "Listening") = 1
    /\ Cardinality({t \in Threads : pc[t] # "none"}) = 1
    /\ \E i \in DOMAIN messages : i < Len(messages) - 1
          /\ messages[i] = Msg("status", "Listening")

\* C35 as stated: the hit counters together never exceed total_lookups, and
\* the hit ratio lies between 0 and 1.
C35_HitsWithinLookups ==
    /\ HitsOf(cache_hits, phrase_hits, similarity_hits, audio_hits) <= total_lookups
    /\ 0 <= hit_ratio.num /\ hit_ratio.num <= hit_ratio.den

\* A step in which TranscriptionCache.clear completes.
ClearStep == api'.op = "clear" /\ <<cache, counters, api>>' # <<cache, counters, api>>

\* C36: clear leaves the exact cache and the fingerprint index empty and
\* every counter at zero, and the phrase table and the frequency counters as
\* they were.
C36_ClearKeepsPhrases ==
    [][ClearStep =>
          /\ cache' = <<>> /\ audio_fingerprint_cache' = <<>>
          /\ total_lookups' = 0 /\ cache_hits' = 0 /\ phrase_hits' = 0
          /\ similarity_hits' = 0 /\ audio_hits' = 0
          /\ hit_ratio'.num = 0
          /\ phrase_cache' = phrase_cache
          /\ phrase_frequency' = phrase_frequency]_vars

\* C36 witness: clear has emptied a cache that held entries; a text that was
\* promoted before is still in the phrase table with its count.
C36_Witness ==
    /\ api.op = "clear" /\ api.evicted >= 1
    /\ cache = <<>> /\ total_lookups = 0
    /\ "a" \in phrase_cache
    /\ FrequencyOf(phrase_frequency, "a") >= promotion_threshold

\* A step in which the cache is saved and constructed again from its file.
ReloadStep == api'.op = "reload"

\* C37 as stated: the cache constructed from the file a cache has saved has
\* the same exact-cache entries in the same order, the same fingerprint
\* index, the same phrase table and the same frequency counters.
C37_SaveLoadRoundTrip ==
    [][ReloadStep =>
          /\ cache' = cache
          /\ audio_fingerprint_cache' = audio_fingerprint_cache
          /\ phrase_cache' = phrase_cache
          /\ phrase_frequency' = phrase_frequency]_vars

\* C38 as stated: the callback is invoked only when the last two detection
\* rounds both detected the wake word, and the counter, the buffer and the
\* sliding window are empty right after it.
C38_TwoConsecutiveDetections ==
    called =>
        /\ rounds = <<"hit", "hit">>
        /\ consecutive_detections = 0 /\ buffer_index = 0 /\ recent_audio = 0

\* The samples a list of segments covers, ends included.
Covered(l) == {x \in 0..MaxPoint : \E i \in DOMAIN l : l[i].start <= x /\ x <= l[i].end}

\* C39: the merged segments are sorted by start, each starts strictly after
\* the one before it ends, and together they cover exactly what the input
\* segments cover.
C39_MergedSegments ==
    filter_pc = "merged" =>
        /\ \A i \in DOMAIN merged_segments :
              /\ merged_segments[i].start <= merged_segments[i].end
              /\ i > 1 => merged_segments[i].start > merged_segments[i - 1].end
        /\ Covered(merged_segments) = Covered(silero_segments \o webrtc_segments)

\* C39 witness: three segments given out of order, two that touch and one
\* apart, have been merged into two.
C39_Witness ==
    /\ filter_pc = "merged"
    /\ Len(silero_segments) + Len(webrtc_segments) = 3
    /\ Len(merged_segments) = 2
    /\ silero_segments # <<>> /\ webrtc_segments # <<>>
    /\ webrtc_segments[1].start < silero_segments[1].start
    /\ \E i, j \in DOMAIN (silero_segments \o webrtc_segments) :
          /\ i # j
          /\ (silero_segments \o webrtc_segments)[i].end
                = (silero_segments \o webrtc_segments)[j].start
          /\ (silero_segments \o webrtc_segments)[i].start
                < (silero_segments \o webrtc_segments)[i].end

====
